---- MODULE Spec2Model ----
(***************************************************************************)
(* Model of the c3s_sm image stack and reshuffling driver:                 *)
(*   - C3S_Nc_Img_Stack.tstamps_for_daterange  (interface.py)              *)
(*   - C3S_Nc_Img_Stack._build_filename / C3SImg.read  (interface.py)      *)
(*   - img2ts / extend_ts and the summary files  (reshuffle.py, misc.py)   *)
(*   - the reshuffle command  (cli.py)                                     *)
(*   - download_c3ssm / download_and_extract  (download.py)                *)
(*   - the bit flag catalogs  (bitflags.py)                                *)
(* Dates are proleptic Gregorian ordinals (datetime.toordinal); every      *)
(* timestamp of the product is at midnight, so a date is a timestamp.      *)
(***************************************************************************)
EXTENDS Integers, Sequences, FiniteSets, TLC

VARIABLES
    freq,        \* fname_args['temp'] / props['freq']: cadence parsed from the file names
    call,        \* last call of tstamps_for_daterange: arguments, status, result
    again,       \* result of repeating that call with identical arguments
    images,      \* dates for which img_path holds a readable image file
    corrupt,     \* dates for which img_path holds a file that cannot be opened
    imgSummary,  \* period_to of img_path/000_overview.yml, or NoDate if absent
    manifest,    \* img2ts_kwargs['enddate'] of ts_path/000_overview.yml, or NoDate
    store,       \* the time axis and values of a cell file: sequence of [t, v]
    lastRead,    \* outcome of the C3S_Nc_Img_Stack.read(timestamp) that has just returned
    lastRun,     \* outcome of the img2ts run that has just returned
    history,     \* how the cell file was built: "none", "img2ts", "extended", "mixed"
    policy,      \* what the reshuffler does when read raises IOError
    tsDir,       \* the output directory ts_path: "absent" or "present"
    n_bits,          \* BitFlagShuffler.n_bits: number of named single-bit meanings
    active_bits,     \* ProductBitFlag.active_bits: bit values valid for active sensors
    passive_bits,    \* ProductBitFlag.passive_bits: bit values valid for passive sensors
    combis_ref_num,  \* argument of build(): combined meanings list bit values, not names
    locMissing,      \* what DataFrame.loc does with a list holding a missing label
    df,              \* BitFlagShuffler._df: [built, rows]; built = FALSE while it is None
    fullTable,       \* the rows of the table when it was built
    lastQuery,       \* the get_prod_flags call that has just returned
    firstResult,     \* per (sensor_prod, no_combis): what its first call returned
    nQueries,        \* number of get_prod_flags calls made on the object
    mask,            \* the cells of the image file that are masked (no observation)
    parameters,      \* C3SImg.parameters: names of the variables to read
    fillval,         \* C3SImg.fillval: fill value (or None) per parameter
    flatten,         \* C3SImg.flatten
    activegpis,      \* C3SImg.grid.activegpis: the grid points of the (sub)grid, in order
    ntimes,          \* number of time stamps the image file declares in its time variable
    asserts,         \* whether the interpreter executes assert statements (not python -O)
    readable,        \* whether netCDF4.Dataset can open the image file
    paramsArg,       \* the parameters argument C3SImg was constructed with ({} for None)
    nReads,          \* number of read() calls made on the C3SImg object
    lastLoad,        \* what the try/except at the top of the last read() produced
    cellFiles,       \* per cell of the grid: the time axis of its file under ts_path
    lastWrite,       \* outcome of the img2ts call whose Img2Ts.calc wrote cell files
    tsPathImages,    \* dates of the files under ts_path whose names match fntempl
    lastCli,         \* the `c3s_sm reshuffle` command that has just returned
    aggregation,     \* download_and_extract: 'daily', 'dekadal' or 'monthly'
    startdate,       \* download_and_extract: first day to download data for
    enddate,         \* download_and_extract: last day to download data for
    curr,            \* curr_start (daily) or curr_year (otherwise) of the while loop
    requests,        \* the download_c3ssm calls made so far, in order
    dlPc,            \* "idle", "loop" while the while loop runs, "done" after return
    dlSuccess,       \* what the last download_c3ssm call returned
    max_retries,     \* download_c3ssm: argument max_retries
    keep_original,   \* download_c3ssm: argument keep_original
    targetExists,    \* whether target_dir exists when download_c3ssm is called
    record,          \* position in ['cdr', 'icdr'] of the record being downloaded
    tries,           \* the loop counter i of the record being downloaded
    success,         \* download_c3ssm: the dict success
    attempts,        \* per record: the outcomes of its c.retrieve calls, in order
    dlFile,          \* the file dl_file: "absent", "partial" or "complete"
    extracted,       \* the records whose archive was extracted into target_dir
    retryPc,         \* "idle", "start", "try", "failed" after a failed attempt, "returned", "IOError"
    img_path,        \* img2ts: the image directory, a sequence of directory names
    ts_path,         \* img2ts: the output directory, a sequence of directory names
    fsFiles,         \* the files that exist: [dir, kind], kind "image", "cell" or "manifest"
    lastPathRun,     \* the img2ts call on these paths that has just returned
    lastImg,         \* outcome of the C3SImg.read() that has just returned
    found,           \* the list _search_files returns for the timestamp asked for
    solve_ambiguity, \* C3S_Nc_Img_Stack.solve_ambiguity
    lastBuild,       \* outcome of the _build_filename call that has just returned
    version,         \* fname_args['version']: version string of the image file names
    tsAttrs,         \* attributes written with the time series: "none" or "catalog"
    lookedUp,        \* whether the img2ts call that has just returned looked up the catalog
    lastCall         \* arguments and outcome of the img2ts call that has just returned

flagVars == <<n_bits, active_bits, passive_bits, combis_ref_num, locMissing, df,
              fullTable, lastQuery, firstResult, nQueries>>

imgVars == <<mask, parameters, fillval, flatten, activegpis, lastImg>>

\* the state of the objects an operation of another object does not touch
fileVars == <<found, solve_ambiguity, lastBuild>>

callVars == <<version, tsAttrs, lookedUp, lastCall>>

loadVars == <<ntimes, asserts, readable, paramsArg, nReads, lastLoad>>

writeVars == <<cellFiles, lastWrite>>

cliVars == <<tsPathImages, lastCli>>

dlVars == <<aggregation, startdate, enddate, curr, requests, dlPc, dlSuccess>>

pathVars == <<img_path, ts_path, fsFiles, lastPathRun>>

retryVars == <<max_retries, keep_original, targetExists, record, tries, success,
               attempts, dlFile, extracted, retryPc>>

extVars == <<flagVars, imgVars, fileVars, callVars, loadVars, writeVars,
            cliVars,
            dlVars,
            retryVars,
            pathVars>>

vars == <<freq, call, again, images, corrupt, imgSummary, manifest, store,
          lastRead, lastRun, history, policy, tsDir, extVars>>

runVars == <<images, corrupt, imgSummary, manifest, store, lastRead, lastRun,
             history, policy, tsDir>>

----------------------------------------------------------------------------
(* Bounds of the model *)

\* number of days in the window from which tstamps_for_daterange arguments are drawn
WinDays == 72

\* number of days in the window of the image archive / reshuffle runs
RunDays == 3

\* longest time axis of a cell file that the runs may build
MaxAxis == 4

\* largest number of named bits of a bit flag catalog
MaxBits == 3

\* largest number of get_prod_flags calls made on one catalog
MaxQueries == 3

\* rows and columns of the image grid
GridRows == 2

GridCols == 2

\* largest number of files matching one timestamp
MaxFiles == 4

----------------------------------------------------------------------------
(* Calendar: datetime / dateutil.relativedelta arithmetic *)


IsLeap(y) == (y % 4 = 0) /\ ((y % 100 # 0) \/ (y % 400 = 0))

DaysInMonth(y, m) ==
    IF m = 2 THEN (IF IsLeap(y) THEN 29 ELSE 28)
    ELSE IF m \in {4, 6, 9, 11} THEN 30 ELSE 31

\* days of a common year before the first of each month
CumDays == <<0, 31, 59, 90, 120, 151, 181, 212, 243, 273, 304, 334>>

DaysBeforeMonth(y, m) == CumDays[m] + (IF m > 2 /\ IsLeap(y) THEN 1 ELSE 0)

DaysBeforeYear(y) ==
    (y - 1) * 365 + ((y - 1) \div 4) - ((y - 1) \div 100) + ((y - 1) \div 400)

\* datetime(y, m, d).toordinal()
Ord(y, m, d) == DaysBeforeYear(y) + DaysBeforeMonth(y, m) + d

\* None / absent file: the ordinal before datetime.min
NoDate == DaysBeforeYear(1)

\* np.nan, the fill value img2ts passes for 'sm'
NaN == NoDate

\* the years the model's dates lie in
Years == 2019 .. 2021

CalDates == Ord(2019, 1, 1) .. Ord(2021, 12, 31)

\* datetime.fromordinal(n): <<year, month, day>>
FromOrd ==
    [n \in CalDates |->
        LET y == CHOOSE yy \in Years : Ord(yy, 1, 1) <= n /\ n < Ord(yy + 1, 1, 1)
            m == CHOOSE mm \in 1 .. 12 :
                     Ord(y, mm, 1) <= n /\ n < Ord(y, mm, 1) + DaysInMonth(y, mm)
        IN  <<y, m, n - Ord(y, m, 1) + 1>>]

YearOf(n) == FromOrd[n][1]

MonthOf(n) == FromOrd[n][2]

DayOf(n) == FromOrd[n][3]

Min(a, b) == IF a <= b THEN a ELSE b

\* date + relativedelta(days=k)
AddDays(n, k) == n + k

\* date + relativedelta(months=1): next month, day clipped to the month's length
AddMonth(n) ==
    LET y  == YearOf(n)
        m  == MonthOf(n)
        y2 == IF m = 12 THEN y + 1 ELSE y
        m2 == IF m = 12 THEN 1 ELSE m + 1
    IN  Ord(y2, m2, Min(DayOf(n), DaysInMonth(y2, m2)))

----------------------------------------------------------------------------
(* BitFlagShuffler / ProductBitFlag (bitflags.py)                           *)
(* A string is a sequence of tokens [kind, v]; a row of the table is        *)
(* [intflag, bitflag, meaning, flags], flags being the b-columns that are   *)
(* True.                                                                    *)

RECURSIVE Pow2(_)
Pow2(b) == IF b = 0 THEN 1 ELSE 2 * Pow2(b - 1)

\* self.bits: list(self.bits_flags.keys())[1:] = [2**0, 2**1, ...]
Bits(k) == [b \in 1 .. k |-> Pow2(b - 1)]

BitSet(k) == {Pow2(b - 1) : b \in 1 .. k}

Range(f) == {f[i] : i \in DOMAIN f}

Tok(kind, v) == [kind |-> kind, v |-> v]

\* self.bits_flags[key]: the unflagged meaning for 0, the name of a bit otherwise
BitsFlags(key) == IF key = 0 THEN Tok("unflagged", 0) ELSE Tok("name", key)

\* itertools.combinations(self.bits, n): the ascending n-tuples of bits
Combinations(bits, n) ==
    {c \in [1 .. n -> Range(bits)] : \A i \in 1 .. (n - 1) : c[i] < c[i + 1]}

\* sep.join(flags)
RECURSIVE Join(_, _)
Join(flags, sep) ==
    IF Len(flags) = 0 THEN <<>>
    ELSE IF Len(flags) = 1 THEN <<flags[1]>>
    ELSE <<flags[1], sep>> \o Join(Tail(flags), sep)

\* variant: the template lists the bits from bit 0 upwards (no reversed())
BitflagLowBitFirst(k, combi) ==
    [p \in 1 .. k |-> IF Pow2(p - 1) \in Range(combi) THEN 1 ELSE 0]

\* self.bitflag_template.format(**kwargs): the digits after '0b', highest bit first
BitflagTemplate(k, combi) ==
    [p \in 1 .. k |-> IF Pow2(k - p) \in Range(combi) THEN 1 ELSE 0]

\* bitflag2int: int(bitflag, 2)
RECURSIVE Bitflag2Int(_)
Bitflag2Int(digits) ==
    IF Len(digits) = 0 THEN 0
    ELSE 2 * Bitflag2Int(SubSeq(digits, 1, Len(digits) - 1)) + digits[Len(digits)]

\* variant: every non-empty subset gets the synthesized meaning, single bits included
MeaningAlwaysJoined(combi, num) ==
    IF Len(combi) = 0 THEN <<BitsFlags(0)>>
    ELSE <<Tok("prefix", 0)>>
         \o Join([i \in 1 .. Len(combi) |->
                     IF num THEN Tok("num", combi[i]) ELSE BitsFlags(combi[i])],
                 Tok("sep", 0))
         \o <<Tok("postfix", 0)>>

\* the meaning computed by _combi2bitflag
CombiMeaning(combi, num) ==
    IF Len(combi) = 0 THEN <<BitsFlags(0)>>
    ELSE IF Len(combi) = 1 THEN <<BitsFlags(combi[1])>>
    ELSE <<Tok("prefix", 0)>>
         \o Join([i \in 1 .. Len(combi) |->
                     IF num THEN Tok("num", combi[i]) ELSE BitsFlags(combi[i])],
                 Tok("sep", 0))
         \o <<Tok("postfix", 0)>>

\* _combi2bitflag and the row build() makes of it
Combi2Bitflag(k, combi, num) ==
    [intflag |-> Bitflag2Int(BitflagTemplate(k, combi)),
     bitflag |-> BitflagTemplate(k, combi),
     meaning |-> CombiMeaning(combi, num),
     flags   |-> Range(combi)]

\* build(): one row per combination of 0 .. n_bits bits
Build(k, num) ==
    {Combi2Bitflag(k, c, num) :
        c \in UNION {Combinations(Bits(k), bs) : bs \in 0 .. k}}

\* indices of the rows in which one of the bits is set
IdxForBits(rows, bits) == {r.intflag : r \in {x \in rows : x.flags \cap bits # {}}}

\* filter_bits(include_bits, exclude_bits): df.loc[indices_incl not in indices_excl]
FilterBits(rows, include_bits, exclude_bits) ==
    {r \in rows : r.intflag \in IdxForBits(rows, include_bits)
                                \ IdxForBits(rows, exclude_bits)}

\* the possible reactions of df.loc[labels] to a label that is not in the index
LocReactions == {"KeyError", "NaNRows"}

NoEntries == {}

\* get_flags(index='intflag', drop_other=True, as_type='dict'): intflag -> meaning
GetFlags(rows, k, no_combis, onMissing) ==
    LET labels  == {0} \cup BitSet(k)
        present == {r.intflag : r \in rows}
        entry(r) == [intflag |-> r.intflag, meaning |-> r.meaning]
    IN  IF ~no_combis
        THEN [status |-> "ok", entries |-> {entry(r) : r \in rows}]
        ELSE IF labels \subseteq present
        THEN [status |-> "ok",
              entries |-> {entry(r) : r \in {x \in rows : x.intflag \in labels}}]
        ELSE IF onMissing = "KeyError"
        THEN [status |-> "KeyError", entries |-> NoEntries]
        ELSE [status |-> "ok",
              entries |-> {entry(r) : r \in {x \in rows : x.intflag \in labels}}
                          \cup {[intflag |-> l, meaning |-> <<Tok("nan", 0)>>] :
                                   l \in labels \ present}]

Products == {"active", "passive", "combined"}

QueryKeys == Products \X BOOLEAN

NoTable == [built |-> FALSE, rows |-> {}]

NoQuery == [prod |-> "none", no_combis |-> FALSE, status |-> "none",
            entries |-> NoEntries]

NoResult == [status |-> "none", entries |-> NoEntries]

----------------------------------------------------------------------------
(* C3SImg: one image file on a GridRows x GridCols grid (interface.py)      *)
(* A file cell is <<row, col>>, row 0 being the first (northernmost) row of *)
(* the file; grid point gpi = row_from_south * GridCols + col.              *)

Cells == (0 .. (GridRows - 1)) \X (0 .. (GridCols - 1))

Gpis == 0 .. (GridRows * GridCols - 1)

\* the data variables of the file
FileVariables == {"sm", "nobs"}

\* the _FillValue the file declares for its variables
RawSentinel == -9999

\* a fill value other than np.nan that a caller passes
MinusOne == -1

\* the value the file holds for a variable in a cell that is not masked
FileValue(var, cell) ==
    (IF var = "sm" THEN 100 ELSE 200) + 10 * (cell[1] + 1) + (cell[2] + 1)

None == [none |-> TRUE, v |-> 0]

Some(x) == [none |-> FALSE, v |-> x]

\* C3SImg.__init__: a fillval dict is completed with None for the other parameters
InitFillval(arg, params) ==
    [p \in (DOMAIN arg) \cup params |-> IF p \in DOMAIN arg THEN Some(arg[p]) ELSE None]

\* keys: a variable name, or the netCDF Variable object ds.variables[name]
NameKey(name) == [kind |-> "name", v |-> name]

VariableKey(name) == [kind |-> "Variable", v |-> name]

\* key in dict, for a dict whose keys are names
InDict(key, dict) == key.kind = "name" /\ key.v \in DOMAIN dict

\* param[:]: the masked array of a variable; data.filled(fill_value)
Filled(var, msk, fill_value) ==
    [c \in Cells |-> IF c \in msk THEN fill_value ELSE FileValue(var, c)]

\* np.flipud(data).flatten(): rows reversed, then row-major
FlipudFlatten(data) ==
    [g \in Gpis |-> data[<<(GridRows - 1) - (g \div GridCols), g % GridCols>>]]

\* __read_flat_img, body of the loop: `param in self.fillval` tests the Variable
\* object param = ds.variables[parameter], the fill value is read at self.fillval[param]
ReadFlatParam(parameter, msk, fvs) ==
    FlipudFlatten(
        IF InDict(VariableKey(parameter), fvs) /\ ~fvs[parameter].none
        THEN Filled(parameter, msk, fvs[parameter].v)
        ELSE Filled(parameter, msk, RawSentinel))

\* __read_flat_img: param_img
ReadFlatImg(params, msk, fvs) == [p \in params |-> ReadFlatParam(p, msk, fvs)]

\* the arguments __mask_and_reshape requires
MaskAndReshapeArgs == {"data", "shape_2d"}

\* __mask_and_reshape(data, shape_2d, crop_2d): the selection of the active
\* points is bound to the loop variable only, and the function has no return
MaskAndReshape(args, data) ==
    IF MaskAndReshapeArgs \subseteq args
    THEN [status |-> "ok", data |-> <<>>]
    ELSE [status |-> "TypeError", data |-> <<>>]

\* np.flipud of a one-dimensional array: the array reversed
Flipud1D(arr) == [i \in 1 .. Len(arr) |-> arr[Len(arr) + 1 - i]]

\* gpi2lonlat on the grid: <<column, row from south>>
Gpi2LonLat(g) == <<g % GridCols, g \div GridCols>>

\* read(): __read_flat_img, __mask_and_reshape(data, crop_2d=True), Image(...)
C3SImgReadImage(params, msk, fvs, flat, gpis) ==
    LET img    == ReadFlatImg(params, msk, fvs)
        masked == MaskAndReshape({"data", "crop_2d"}, img)
    IN  IF masked.status # "ok"
        THEN [status |-> masked.status, flat |-> img, data |-> <<>>,
              lon |-> <<>>, lat |-> <<>>]
        ELSE [status |-> "ok", flat |-> img, data |-> masked.data,
              lon |-> [i \in 1 .. Len(gpis) |-> Gpi2LonLat(gpis[i])[1]],
              lat |-> IF flat
                      THEN Flipud1D([i \in 1 .. Len(gpis) |-> Gpi2LonLat(gpis[i])[2]])
                      ELSE [i \in 1 .. Len(gpis) |-> Gpi2LonLat(gpis[i])[2]]]

NoImg == [status |-> "none", flat |-> <<>>, data |-> <<>>, lon |-> <<>>, lat |-> <<>>]

\* no image object exists
InitNoImg ==
    /\ mask = {}
    /\ parameters = {}
    /\ fillval = <<>>
    /\ flatten = FALSE
    /\ activegpis = <<>>
    /\ lastImg = NoImg

\* __read_empty_flat_image: one array per entry of self.parameters, filled with
\* self.fillval[param], or with np.nan if the dict has no entry for it
ReadEmptyFlatImg(params, fvs) ==
    [p \in params |-> [g \in Gpis |-> IF p \in DOMAIN fvs THEN fvs[p] ELSE Some(NaN)]]

\* the time stamp counts an image file may declare
TimeCounts == {0, 1, 2}

\* __read_flat_img up to `timestamp = timestamp[0]`: Dataset(...) raises IOError
\* for a file it cannot open; the count is checked by an assert statement, which
\* the interpreter skips under -O, and then timestamp[0] is taken unchecked
OpenAndStamp(canOpen, nt, asrt) ==
    IF ~canOpen THEN "IOError"
    ELSE IF asrt /\ nt # 1 THEN "AssertionError"
    ELSE IF nt = 0 THEN "IndexError"
    ELSE "ok"

\* read(), the try/except: __read_flat_img, and on IOError (only)
\* __read_empty_flat_image; params is self.parameters when the call returns
C3SImgLoad(params, msk, fvs, canOpen, nt, asrt) ==
    LET opened == OpenAndStamp(canOpen, nt, asrt)
        all    == IF params = {} THEN FileVariables ELSE params
    IN  IF opened = "ok"
        THEN [status |-> "file", opened |-> canOpen, ntimes |-> nt, params |-> all,
              data |-> ReadFlatImg(all, msk, fvs)]
        ELSE IF opened = "IOError"
        THEN [status |-> "empty", opened |-> canOpen, ntimes |-> nt, params |-> params,
              data |-> ReadEmptyFlatImg(params, fvs)]
        ELSE [status |-> opened, opened |-> canOpen, ntimes |-> nt, params |-> params,
              data |-> <<>>]

NoLoad == [status |-> "none", opened |-> FALSE, ntimes |-> 1, params |-> {},
           data |-> <<>>]

\* no image file is being read
InitNoLoad ==
    /\ ntimes = 1
    /\ asserts = TRUE
    /\ readable = TRUE
    /\ paramsArg = {}
    /\ nReads = 0
    /\ lastLoad = NoLoad

----------------------------------------------------------------------------
(* C3S_Nc_Img_Stack._build_filename on the list of matching files           *)
(* A file name is its rank in lexicographic order.                          *)

AmbiguityPolicies == {"sort_last", "sort_first", "raise"}

NoWarnings == <<>>

\* warnings.warn(...): the file the message says is used, the files it lists as skipped
Warning(used, skipped) == [used |-> used, skipped |-> skipped]

\* _build_filename after the search: filename is the list the search returned
BuildFilenameFrom(filename, ambiguity) ==
    IF Len(filename) = 0
    THEN [status |-> "IOError", file |-> NoDate, warnings |-> NoWarnings]
    ELSE IF Len(filename) > 1
    THEN CASE ambiguity = "sort_last" ->
                [status |-> "ok", file |-> filename[Len(filename)],
                 warnings |-> <<Warning(filename[Len(filename)],
                                        Range(SubSeq(filename, 1, Len(filename) - 1)))>>]
           [] ambiguity = "sort_first" ->
                [status |-> "ok", file |-> filename[1],
                 warnings |-> <<Warning(filename[1], {})>>]
           [] OTHER ->
                [status |-> "IOError", file |-> NoDate, warnings |-> NoWarnings]
    ELSE [status |-> "ok", file |-> filename[1], warnings |-> NoWarnings]

NoBuild == [status |-> "none", file |-> NoDate, warnings |-> NoWarnings]

\* no file search has been made
InitNoFiles ==
    /\ found = <<>>
    /\ solve_ambiguity = "sort_last"
    /\ lastBuild = NoBuild

----------------------------------------------------------------------------
(* img2ts: the checks made before the output directory is touched           *)

\* the versions for which metadata has a class C3S_SM_TS_Attrs_<version>
CatalogVersions == {"v201706", "v201801"}

\* the version strings image file names carry
FileVersions == CatalogVersions \cup {"v202212"}

\* variant: the exclusion of bbox and cells is not checked
Img2tsChecksNoExclusion(nested, bbox, cells, ignore_meta, vers) ==
    IF nested THEN "ValueError"
    ELSE IF ~ignore_meta /\ vers \notin CatalogVersions THEN "AttributeError"
    ELSE "ok"

\* img2ts up to the handling of overwrite: the path guard, the exclusion of
\* bbox and cells, and getattr(metadata, "C3S_SM_TS_Attrs_" + version)
Img2tsChecks(nested, bbox, cells, ignore_meta, vers) ==
    IF nested THEN "ValueError"
    ELSE IF bbox /\ cells THEN "ValueError"
    ELSE IF ~ignore_meta /\ vers \notin CatalogVersions THEN "AttributeError"
    ELSE "ok"

\* whether the call reaches the lookup of the catalog
ReachesLookup(nested, bbox, cells, ignore_meta) ==
    ~nested /\ ~(bbox /\ cells) /\ ~ignore_meta

NoImg2tsCall == [status |-> "none", nested |-> FALSE, bbox |-> FALSE,
                 cells |-> FALSE, ignore_meta |-> FALSE, overwrite |-> FALSE]

\* no call of img2ts with its full arguments has been made
InitNoCalls ==
    /\ version = "v201801"
    /\ tsAttrs = "none"
    /\ lookedUp = FALSE
    /\ lastCall = NoImg2tsCall

\* no bit flag object exists
InitNoFlags ==
    /\ n_bits = 0
    /\ active_bits = {}
    /\ passive_bits = {}
    /\ combis_ref_num = TRUE
    /\ locMissing = "KeyError"
    /\ df = NoTable
    /\ fullTable = {}
    /\ lastQuery = NoQuery
    /\ firstResult = [q \in QueryKeys |-> NoResult]
    /\ nQueries = 0

\* the cells the output grid is split into
NCells == 2

TsCells == 1 .. NCells

NoWrite == [status |-> "none", n |-> 0, overwrite |-> FALSE, failAt |-> 0,
            stamps |-> <<>>, prevManifest |-> NoDate, prevFiles |-> [c \in TsCells |-> <<>>]]

\* no cell file has been written
InitNoWrite ==
    /\ cellFiles = [c \in TsCells |-> <<>>]
    /\ lastWrite = NoWrite

NoCli == [status |-> "none", startArg |-> NoDate, endArg |-> NoDate,
          images |-> {}, start |-> NoDate, end |-> NoDate]

\* no command has been run
InitNoCli ==
    /\ tsPathImages = {}
    /\ lastCli = NoCli

\* the record types download_c3ssm asks for, in this order
Records == <<"cdr", "icdr">>

NoSuccess == [r \in {"cdr", "icdr"} |-> FALSE]

\* no download is running
InitNoDownload ==
    /\ aggregation = "daily"
    /\ startdate = NoDate
    /\ enddate = NoDate
    /\ curr = NoDate
    /\ requests = <<>>
    /\ dlPc = "idle"
    /\ dlSuccess = NoSuccess

\* download_c3ssm is not running
InitNoRetry ==
    /\ max_retries = 0
    /\ keep_original = FALSE
    /\ targetExists = TRUE
    /\ record = 1
    /\ tries = 0
    /\ success = NoSuccess
    /\ attempts = [r \in {"cdr", "icdr"} |-> <<>>]
    /\ dlFile = "absent"
    /\ extracted = {}
    /\ retryPc = "idle"

NoPathRun == [status |-> "none", overwrite |-> FALSE, before |-> {}]

\* no call of img2ts on explicit paths has been made
InitNoPaths ==
    /\ img_path = <<>>
    /\ ts_path = <<>>
    /\ fsFiles = {}
    /\ lastPathRun = NoPathRun

InitExt == InitNoFlags /\ InitNoImg /\ InitNoFiles /\ InitNoCalls /\ InitNoLoad
    /\ InitNoWrite
    /\ InitNoCli
    /\ InitNoDownload
    /\ InitNoRetry
    /\ InitNoPaths

----------------------------------------------------------------------------
(* C3S_Nc_Img_Stack.tstamps_for_daterange *)

Cadences == {"DAILY", "DEKADAL", "MONTHLY"}

\* a file name may carry any token in the {temp} field
FreqValues == Cadences \cup {"HOURLY"}

DekadStep == 10

DekadDays == {1, 11, 21}

\* the lambda `next` selected by fname_args['temp']
NextStamp(f, n) ==
    CASE f = "MONTHLY" -> AddMonth(n)
      [] f = "DAILY"   -> AddDays(n, 1)
      [] f = "DEKADAL" -> AddDays(n, DekadStep)

RECURSIVE ExtendStamps(_, _, _)
ExtendStamps(f, ts, e) ==
    IF NextStamp(f, ts[Len(ts)]) <= e
    THEN ExtendStamps(f, Append(ts, NextStamp(f, ts[Len(ts)])), e)
    ELSE ts

\* variant: the cursor is appended before it is advanced, so the start is listed twice
RECURSIVE ExtendStampsFromCursor(_, _, _, _)
ExtendStampsFromCursor(f, ts, cur, e) ==
    IF cur <= e
    THEN ExtendStampsFromCursor(f, Append(ts, cur), NextStamp(f, cur), e)
    ELSE ts

TstampsStartTwice(f, s, e) == ExtendStampsFromCursor(f, <<s>>, s, e)

\* variant: the loop stops one step early (< instead of <=)
RECURSIVE ExtendStampsStrict(_, _, _)
ExtendStampsStrict(f, ts, e) ==
    IF NextStamp(f, ts[Len(ts)]) < e
    THEN ExtendStampsStrict(f, Append(ts, NextStamp(f, ts[Len(ts)])), e)
    ELSE ts

TstampsEndExclusive(f, s, e) == ExtendStampsStrict(f, <<s>>, e)

\* timestamps = [start_date]; while next(timestamps[-1]) <= end_date: append
TstampsForDaterange(f, s, e) == ExtendStamps(f, <<s>>, e)

\* outcome of the method: NotImplementedError for an unknown cadence token
TstampsOutcome(f, s, e) ==
    IF f \in Cadences
    THEN [status |-> "ok", result |-> TstampsForDaterange(f, s, e)]
    ELSE [status |-> "NotImplementedError", result |-> <<>>]

----------------------------------------------------------------------------
(* Calls of tstamps_for_daterange on one image stack *)

WinStart == Ord(2019, 12, 25)

WinDates == WinStart .. (WinStart + WinDays - 1)

NoCall == [start |-> NoDate, end |-> NoDate, status |-> "none", result |-> <<>>]

NoRead == [t |-> NoDate, status |-> "none", value |-> NaN, missing |-> FALSE]

NoRun == [status |-> "none", stamps |-> <<>>, fresh |-> FALSE, extend |-> FALSE,
          start |-> NoDate, end |-> NoDate, prevEnd |-> NoDate]

\* the run state is not used by the calls of tstamps_for_daterange
InitRunVars ==
    /\ images = {}
    /\ corrupt = {}
    /\ imgSummary = NoDate
    /\ manifest = NoDate
    /\ store = <<>>
    /\ lastRead = NoRead
    /\ lastRun = NoRun
    /\ history = "none"
    /\ policy = "skip"
    /\ tsDir = "absent"

InitStamps ==
    /\ freq \in FreqValues
    /\ \E s \in WinDates, e \in WinDates :
           call = [start |-> s, end |-> e, status |-> "none", result |-> <<>>]
    /\ again = NoCall
    /\ InitRunVars
    /\ InitExt

\* ds.tstamps_for_daterange(start, end) on the stack
Tstamps ==
    /\ call.status = "none"
    /\ LET out == TstampsOutcome(freq, call.start, call.end)
       IN  call' = [call EXCEPT !.status = out.status, !.result = out.result]
    /\ UNCHANGED <<freq, again, runVars, extVars>>

\* the same call once more, on the same stack, with identical arguments
TstampsAgain ==
    /\ call.status # "none"
    /\ again.status = "none"
    /\ LET out == TstampsOutcome(freq, call.start, call.end)
       IN  again' = [start |-> call.start, end |-> call.end,
                     status |-> out.status, result |-> out.result]
    /\ UNCHANGED <<freq, call, runVars, extVars>>

NextStamps ==
    \/ Tstamps
    \/ TstampsAgain

SpecStamps == InitStamps /\ [][NextStamps]_vars

----------------------------------------------------------------------------
(* The image archive under img_path *)

\* first_missing_date: the successor of a product date in the product's cadence
FirstMissingDate(f, n) ==
    CASE f = "DAILY"   -> AddDays(n, 1)
      [] f = "MONTHLY" -> AddMonth(n)
      [] f = "DEKADAL" ->
            IF DayOf(n) < 21
            THEN AddDays(n, 10)
            ELSE Ord(YearOf(AddMonth(n)), MonthOf(AddMonth(n)), 1)

RunStart == Ord(2020, 1, 1)

\* the i-th date on which the product publishes an image
RECURSIVE RunSlot(_, _)
RunSlot(f, i) == IF i = 1 THEN RunStart ELSE FirstMissingDate(f, RunSlot(f, i - 1))

RunDatesOf == [f \in Cadences |-> {RunSlot(f, i) : i \in 1 .. RunDays}]

RunDates(f) == RunDatesOf[f]

FileDates == images \cup corrupt

SetMax(S) == CHOOSE x \in S : \A y \in S : y <= x

\* get_last_image_date: the {datetime} field of the last file in sorted order
LastImageDate == SetMax(FileDates)

\* the value the image of date d holds at the observed grid point
ImgValue(d) == d

\* a downloaded archive is extracted into img_path; 000_overview.yml is not touched
ImageArrives(d, ok) ==
    /\ \A x \in FileDates : x < d
    /\ images' = IF ok THEN images \cup {d} ELSE images
    /\ corrupt' = IF ok THEN corrupt ELSE corrupt \cup {d}
    /\ lastRead' = NoRead
    /\ lastRun' = NoRun
    /\ UNCHANGED <<freq, call, again, imgSummary, manifest, store, history, policy,
                   tsDir, extVars>>

----------------------------------------------------------------------------
(* C3S_Nc_Img_Stack.read(timestamp):                                        *)
(* _build_filename(timestamp), then C3SImg(filename).read(timestamp)        *)

\* _search_files: the files whose name carries the timestamp
SearchFiles(t) == IF t \in FileDates THEN {t} ELSE {}

\* _build_filename: IOError when the search yields no file
BuildFilename(t) ==
    IF Cardinality(SearchFiles(t)) = 0
    THEN [status |-> "IOError", file |-> NoDate]
    ELSE [status |-> "ok", file |-> SetMax(SearchFiles(t))]

\* C3SImg.__read_empty_flat_image: every parameter filled, image_missing = 1
ReadEmptyFlatImage(t) ==
    [t |-> t, status |-> "empty", value |-> NaN, missing |-> TRUE]

\* C3SImg.read: the file's data, or the empty image when the file cannot be opened
C3SImgRead(file, t) ==
    IF file \in corrupt
    THEN ReadEmptyFlatImage(t)
    ELSE [t |-> t, status |-> "image", value |-> ImgValue(file), missing |-> FALSE]

StackReadOutcome(t) ==
    IF BuildFilename(t).status = "IOError"
    THEN [t |-> t, status |-> "IOError", value |-> NaN, missing |-> FALSE]
    ELSE C3SImgRead(BuildFilename(t).file, t)

StackRead(t) ==
    /\ lastRead' = StackReadOutcome(t)
    /\ lastRun' = NoRun
    /\ UNCHANGED <<freq, call, again, images, corrupt, imgSummary, manifest,
                   store, history, policy, tsDir, extVars>>

----------------------------------------------------------------------------
(* img2ts and extend_ts *)

\* reaction of the reshuffler to an IOError of read: leave the image out, or stop
OnIOError == {"skip", "abort"}

\* the entries buffered for the timestamps from position i on, in that order
RECURSIVE Buffered(_, _)
Buffered(stamps, i) ==
    IF i > Len(stamps) THEN <<>>
    ELSE LET r == StackReadOutcome(stamps[i])
         IN  (IF r.status = "IOError" THEN <<>>
              ELSE <<[t |-> stamps[i], v |-> r.value]>>)
             \o Buffered(stamps, i + 1)

\* Img2Ts.calc: read every enumerated timestamp, then append to the cell file
Img2TsCalc(base, stamps) == base \o Buffered(stamps, 1)

Img2tsRun(s, e, overwrite, viaExtend) ==
    LET out    == TstampsOutcome(freq, s, e)
        base   == IF overwrite THEN <<>> ELSE store
        oldEnd == IF overwrite THEN NoDate ELSE manifest
        ioErr  == \E i \in 1 .. Len(out.result) :
                      StackReadOutcome(out.result[i]).status = "IOError"
        failed == out.status # "ok" \/ (ioErr /\ policy = "abort")
    IN  /\ Len(base) + Len(out.result) <= MaxAxis
        /\ store' = IF failed THEN base ELSE Img2TsCalc(base, out.result)
        /\ manifest' = IF failed THEN oldEnd ELSE e
        /\ tsDir' = "present"
        /\ lastRun' = [status   |-> IF failed THEN "failed" ELSE "done",
                       stamps   |-> out.result,
                       fresh    |-> (base = <<>>),
                       extend   |-> viaExtend,
                       start    |-> s,
                       end      |-> e,
                       prevEnd  |-> manifest]
        /\ history' =
              IF failed THEN (IF overwrite THEN "none" ELSE history)
              ELSE IF viaExtend
                   THEN (IF history \in {"img2ts", "extended"}
                         THEN "extended" ELSE history)
                   ELSE (IF base = <<>> THEN "img2ts" ELSE "mixed")

\* a reshuffle into a new or emptied ts_path; appending to an existing store is
\* left to extend_ts, as the docstring of img2ts recommends
Img2ts(s, e, overwrite) ==
    /\ overwrite \/ store = <<>>
    /\ Img2tsRun(s, e, overwrite, FALSE)
    /\ lastRead' = NoRead
    /\ UNCHANGED <<freq, call, again, images, corrupt, imgSummary, policy, extVars>>

\* startdate = kwargs['enddate'] + dt
ExtendStart(f, lastEnd) ==
    CASE f = "DAILY"   -> AddDays(lastEnd, 1)
      [] f = "DEKADAL" -> AddDays(lastEnd, DekadStep)
      [] f = "MONTHLY" -> AddMonth(lastEnd)

ExtendTs ==
    /\ manifest # NoDate
    /\ freq \in Cadences
    /\ imgSummary' = IF imgSummary = NoDate THEN LastImageDate ELSE imgSummary
    /\ Img2tsRun(ExtendStart(freq, manifest), imgSummary', FALSE, TRUE)
    /\ lastRead' = NoRead
    /\ UNCHANGED <<freq, call, again, images, corrupt, policy, extVars>>

Init ==
    /\ freq \in Cadences
    /\ call = NoCall
    /\ again = NoCall
    /\ images = {RunStart}
    /\ corrupt = {}
    /\ imgSummary = NoDate
    /\ manifest = NoDate
    /\ store = <<>>
    /\ lastRead = NoRead
    /\ lastRun = NoRun
    /\ history = "none"
    /\ policy \in OnIOError
    /\ tsDir = "absent"
    /\ InitExt

Next ==
    \/ \E d \in RunDates(freq), ok \in BOOLEAN : ImageArrives(d, ok)
    \/ \E t \in RunDates(freq) : StackRead(t)
    \/ \E s \in RunDates(freq), e \in RunDates(freq), ow \in BOOLEAN :
          s <= e /\ Img2ts(s, e, ow)
    \/ ExtendTs

Spec == Init /\ [][Next]_vars

----------------------------------------------------------------------------
(* One ProductBitFlag catalog: build() and get_prod_flags()                 *)

InitFlags ==
    /\ InitNoPaths
    /\ InitNoRetry
    /\ InitNoDownload
    /\ InitNoCli
    /\ InitNoWrite
    /\ freq = "DAILY"
    /\ call = NoCall
    /\ again = NoCall
    /\ InitRunVars
    /\ n_bits \in 2 .. MaxBits
    /\ active_bits \in (SUBSET BitSet(n_bits)) \ {{}}
    /\ passive_bits \in (SUBSET BitSet(n_bits)) \ {{}}
    /\ active_bits \cap passive_bits = {}
    /\ combis_ref_num \in BOOLEAN
    /\ locMissing \in LocReactions
    /\ df = NoTable
    /\ fullTable = {}
    /\ lastQuery = NoQuery
    /\ firstResult = [q \in QueryKeys |-> NoResult]
    /\ nQueries = 0
    /\ InitNoImg
    /\ InitNoFiles
    /\ InitNoCalls
    /\ InitNoLoad

\* flags.build(combis_ref_num, prefix, sep, postfix), as the catalog classes call it
BuildFlags ==
    /\ ~df.built
    /\ df' = [built |-> TRUE, rows |-> Build(n_bits, combis_ref_num)]
    /\ fullTable' = Build(n_bits, combis_ref_num)
    /\ UNCHANGED <<n_bits, active_bits, passive_bits, combis_ref_num, locMissing,
                   lastQuery, firstResult, nQueries>>
    /\ UNCHANGED <<freq, call, again, runVars, imgVars, fileVars, callVars, loadVars,
                   writeVars, cliVars, dlVars, retryVars, pathVars>>

\* get_prod_flags(sensor_prod, index='intflag', drop_other=True, no_combis=...):
\* get_active / get_passive filter in place, read the flags, and call
\* filter_bits(None), which returns a copy and leaves _df as it is
GetProdFlags(sensor_prod, no_combis) ==
    /\ nQueries < MaxQueries
    /\ LET cur      == IF df.built THEN df.rows ELSE Build(n_bits, TRUE)
           filtered == CASE sensor_prod = "active" ->
                                FilterBits(cur, active_bits, passive_bits)
                         [] sensor_prod = "passive" ->
                                FilterBits(cur, passive_bits, active_bits)
                         [] sensor_prod = "combined" -> cur
           out      == GetFlags(filtered, n_bits, no_combis, locMissing)
           key      == <<sensor_prod, no_combis>>
       IN  /\ df' = [built |-> TRUE, rows |-> filtered]
           /\ fullTable' = IF df.built THEN fullTable ELSE cur
           /\ lastQuery' = [prod |-> sensor_prod, no_combis |-> no_combis,
                            status |-> out.status, entries |-> out.entries]
           /\ firstResult' = IF firstResult[key].status = "none"
                             THEN [firstResult EXCEPT ![key] = out]
                             ELSE firstResult
    /\ nQueries' = nQueries + 1
    /\ UNCHANGED <<n_bits, active_bits, passive_bits, combis_ref_num, locMissing>>
    /\ UNCHANGED <<freq, call, again, runVars, imgVars, fileVars, callVars, loadVars,
                   writeVars, cliVars, dlVars, retryVars, pathVars>>

NextFlags ==
    \/ BuildFlags
    \/ \E p \in Products, nc \in BOOLEAN : GetProdFlags(p, nc)

SpecFlags == InitFlags /\ [][NextFlags]_vars

----------------------------------------------------------------------------
(* One C3SImg object over one image file: read()                            *)

\* the fillval dicts a caller passes
FillvalArgs == UNION {[S -> {NaN, MinusOne}] : S \in SUBSET FileVariables}

\* the i-th smallest member of a set of grid points, for i = 1 .. size
Ascending(S) ==
    [i \in 1 .. Cardinality(S) |->
        CHOOSE x \in S : Cardinality({y \in S : y <= x}) = i]

InitImg ==
    /\ InitNoPaths
    /\ InitNoRetry
    /\ InitNoDownload
    /\ InitNoCli
    /\ InitNoWrite
    /\ freq = "DAILY"
    /\ call = NoCall
    /\ again = NoCall
    /\ InitRunVars
    /\ InitNoFlags
    /\ InitNoFiles
    /\ InitNoCalls
    /\ InitNoLoad
    /\ mask \in SUBSET Cells
    /\ parameters \in {{}, {"sm"}, FileVariables}
    /\ \E arg \in FillvalArgs : fillval = InitFillval(arg, parameters)
    /\ flatten \in BOOLEAN
    /\ \E S \in (SUBSET Gpis) \ {{}} : activegpis = Ascending(S)
    /\ lastImg = NoImg

\* image = C3SImg(filename, parameters, grid, flatten, fillval).read();
\* with no parameters given, all data variables of the file are read
ImgRead ==
    /\ lastImg.status = "none"
    /\ parameters' = IF parameters = {} THEN FileVariables ELSE parameters
    /\ lastImg' = C3SImgReadImage(parameters', mask, fillval, flatten, activegpis)
    /\ UNCHANGED <<mask, fillval, flatten, activegpis>>
    /\ UNCHANGED <<freq, call, again, runVars, flagVars, fileVars, callVars, loadVars,
                   writeVars, cliVars, dlVars, retryVars, pathVars>>

NextImg == ImgRead

SpecImg == InitImg /\ [][NextImg]_vars

----------------------------------------------------------------------------
(* One call of _build_filename for a timestamp that several files may match *)

FileNames == 1 .. MaxFiles

\* the lists of distinct file names a search may return, in the order of the search
FoundLists ==
    UNION {{f \in [1 .. n -> FileNames] :
               \A i \in 1 .. n, j \in 1 .. n : i # j => f[i] # f[j]} :
           n \in 0 .. MaxFiles}

InitFiles ==
    /\ InitNoPaths
    /\ InitNoRetry
    /\ InitNoDownload
    /\ InitNoCli
    /\ InitNoWrite
    /\ freq = "DAILY"
    /\ call = NoCall
    /\ again = NoCall
    /\ InitRunVars
    /\ InitNoFlags
    /\ InitNoImg
    /\ InitNoCalls
    /\ InitNoLoad
    /\ found \in FoundLists
    /\ solve_ambiguity \in AmbiguityPolicies
    /\ lastBuild = NoBuild

\* self._build_filename(timestamp)
BuildFilenameCall ==
    /\ lastBuild.status = "none"
    /\ lastBuild' = BuildFilenameFrom(found, solve_ambiguity)
    /\ UNCHANGED <<found, solve_ambiguity>>
    /\ UNCHANGED <<freq, call, again, runVars, flagVars, imgVars, callVars, loadVars,
                   writeVars, cliVars, dlVars, retryVars, pathVars>>

NextFiles == BuildFilenameCall

SpecFiles == InitFiles /\ [][NextFiles]_vars

----------------------------------------------------------------------------
(* Calls of img2ts with all its arguments on one pair (img_path, ts_path)   *)

InitCalls ==
    /\ InitNoPaths
    /\ InitNoRetry
    /\ InitNoDownload
    /\ InitNoCli
    /\ InitNoWrite
    /\ freq \in Cadences
    /\ call = NoCall
    /\ again = NoCall
    /\ images = RunDates(freq)
    /\ corrupt = {}
    /\ imgSummary = NoDate
    /\ manifest = NoDate
    /\ store = <<>>
    /\ lastRead = NoRead
    /\ lastRun = NoRun
    /\ history = "none"
    /\ policy = "skip"
    /\ tsDir = "absent"
    /\ InitNoFlags
    /\ InitNoImg
    /\ InitNoFiles
    /\ InitNoLoad
    /\ version \in FileVersions
    /\ tsAttrs = "none"
    /\ lookedUp = FALSE
    /\ lastCall = NoImg2tsCall

\* img2ts(img_path, ts_path, startdate, enddate, bbox=, cells=, ignore_meta=,
\* overwrite=); nested: img_path is a parent directory of ts_path
Img2tsCall(s, e, overwrite, nested, bbox, cells, ignore_meta) ==
    LET chk == Img2tsChecks(nested, bbox, cells, ignore_meta, version)
    IN  /\ lastCall' = [status |-> chk, nested |-> nested, bbox |-> bbox,
                        cells |-> cells, ignore_meta |-> ignore_meta,
                        overwrite |-> overwrite]
        /\ lookedUp' = ReachesLookup(nested, bbox, cells, ignore_meta)
        /\ IF chk = "ok"
           THEN /\ Img2tsRun(s, e, overwrite, FALSE)
                /\ tsAttrs' = IF ignore_meta THEN "none" ELSE "catalog"
           ELSE /\ lastRun' = NoRun
                /\ UNCHANGED <<store, manifest, history, tsDir, tsAttrs>>
        /\ lastRead' = NoRead
        /\ UNCHANGED <<freq, call, again, images, corrupt, imgSummary, policy,
                       version, flagVars, imgVars, fileVars, loadVars,
                       writeVars, cliVars, dlVars, retryVars, pathVars>>

NextCalls ==
    \E s \in RunDates(freq), e \in RunDates(freq) :
        \E ow \in BOOLEAN, nested \in BOOLEAN, bbox \in BOOLEAN,
           cells \in BOOLEAN, im \in BOOLEAN :
            /\ s <= e
            /\ ow \/ store = <<>>
            /\ Img2tsCall(s, e, ow, nested, bbox, cells, im)

SpecCalls == InitCalls /\ [][NextCalls]_vars

----------------------------------------------------------------------------
(* C3SImg.read on one object, repeatedly, while the file under its name     *)
(* changes between the calls                                                *)

MaxReads == 2

ParamsArgs == {{}, {"sm"}, FileVariables}

InitLoad ==
    /\ InitNoPaths
    /\ InitNoRetry
    /\ InitNoDownload
    /\ InitNoCli
    /\ InitNoWrite
    /\ freq = "DAILY"
    /\ call = NoCall
    /\ again = NoCall
    /\ InitRunVars
    /\ InitNoFlags
    /\ InitNoFiles
    /\ InitNoCalls
    /\ mask = {}
    /\ paramsArg \in ParamsArgs
    /\ parameters = paramsArg
    /\ \E arg \in FillvalArgs : fillval = InitFillval(arg, parameters)
    /\ flatten = TRUE
    /\ activegpis = Ascending(Gpis)
    /\ lastImg = NoImg
    /\ ntimes \in TimeCounts
    /\ asserts \in BOOLEAN
    /\ readable \in BOOLEAN
    /\ nReads = 0
    /\ lastLoad = NoLoad

\* C3SImg.read(): the try/except, then __mask_and_reshape and Image(...)
ImgReadFile ==
    /\ nReads < MaxReads
    /\ nReads' = nReads + 1
    /\ lastLoad' = C3SImgLoad(parameters, mask, fillval, readable, ntimes, asserts)
    /\ parameters' = lastLoad'.params
    /\ lastImg' =
           IF lastLoad'.status \in {"file", "empty"}
           THEN LET masked == MaskAndReshape({"data", "crop_2d"}, lastLoad'.data)
                IN  [status |-> masked.status, flat |-> lastLoad'.data,
                     data |-> masked.data, lon |-> <<>>, lat |-> <<>>]
           ELSE [status |-> lastLoad'.status, flat |-> <<>>, data |-> <<>>,
                 lon |-> <<>>, lat |-> <<>>]
    /\ UNCHANGED <<mask, fillval, flatten, activegpis>>
    /\ UNCHANGED <<ntimes, asserts, readable, paramsArg>>
    /\ UNCHANGED <<freq, call, again, runVars, flagVars, fileVars, callVars,
                   writeVars, cliVars, dlVars, retryVars, pathVars>>

\* between two reads the file is replaced: it becomes unreadable, or readable
FileReplaced ==
    /\ nReads < MaxReads
    /\ readable' = ~readable
    /\ UNCHANGED <<ntimes, asserts, paramsArg, nReads, lastLoad>>
    /\ UNCHANGED <<freq, call, again, runVars, flagVars, imgVars, fileVars, callVars,
                   writeVars, cliVars, dlVars, retryVars, pathVars>>

NextLoad == ImgReadFile \/ FileReplaced

SpecLoad == InitLoad /\ [][NextLoad]_vars

----------------------------------------------------------------------------
(* img2ts runs whose Img2Ts.calc fails while it writes a cell file          *)

\* imgbuffer: the number of images read before the cells are written
ImgBuffer == 2

\* the number of img2ts calls made on one ts_path
MaxRuns == 2

\* the number of buffers the time stamps are processed in
NChunks(stamps) == (Len(stamps) + ImgBuffer - 1) \div ImgBuffer

\* writes happen buffer by buffer, and within a buffer cell by cell
NWrites(stamps) == NChunks(stamps) * NCells

\* the cell files after the first `upto` writes of Img2Ts.calc
CalcWrites(base, stamps, upto) ==
    [c \in TsCells |->
        LET done == IF upto < c THEN 0 ELSE ((upto - c) \div NCells) + 1
        IN  base[c] \o SubSeq(stamps, 1, Min(Len(stamps), ImgBuffer * done))]

\* Img2Ts.calc raising at its write number failAt (0: every write succeeds)
CalcOutcome(base, stamps, failAt) ==
    IF failAt = 0
    THEN [status |-> "ok", files |-> CalcWrites(base, stamps, NWrites(stamps))]
    ELSE [status |-> "WriteError", files |-> CalcWrites(base, stamps, failAt - 1)]

\* variant: the summary file is written before calc is run
Img2tsTailManifestFirst(files, oldManifest, stamps, e, overwrite, failAt) ==
    LET base == IF overwrite THEN [c \in TsCells |-> <<>>] ELSE files
        out  == CalcOutcome(base, stamps, failAt)
    IN  [status   |-> IF out.status = "ok" THEN "done" ELSE out.status,
         files    |-> out.files,
         manifest |-> e]

\* img2ts from the removal of ts_path on: rmtree/makedirs, Img2Ts(...).calc(),
\* and only after calc has returned update_ts_summary_file
Img2tsTail(files, oldManifest, stamps, e, overwrite, failAt) ==
    LET base == IF overwrite THEN [c \in TsCells |-> <<>>] ELSE files
        out  == CalcOutcome(base, stamps, failAt)
    IN  [status   |-> IF out.status = "ok" THEN "done" ELSE out.status,
         files    |-> out.files,
         manifest |-> IF out.status = "ok" THEN e
                      ELSE IF overwrite THEN NoDate ELSE oldManifest]

InitWrite ==
    /\ InitNoPaths
    /\ InitNoRetry
    /\ InitNoDownload
    /\ InitNoCli
    /\ freq \in Cadences
    /\ call = NoCall
    /\ again = NoCall
    /\ images = RunDates(freq)
    /\ corrupt = {}
    /\ imgSummary = NoDate
    /\ manifest = NoDate
    /\ store = <<>>
    /\ lastRead = NoRead
    /\ lastRun = NoRun
    /\ history = "none"
    /\ policy = "skip"
    /\ tsDir = "absent"
    /\ InitNoFlags
    /\ InitNoImg
    /\ InitNoFiles
    /\ InitNoCalls
    /\ InitNoLoad
    /\ InitNoWrite

\* img2ts(img_path, ts_path, startdate, enddate, overwrite=) with a ts_path
\* outside img_path; the run appends only behind the recorded end
Img2tsWrite(s, e, overwrite, failAt) ==
    LET stamps == TstampsOutcome(freq, s, e).result
        out    == Img2tsTail(cellFiles, manifest, stamps, e, overwrite, failAt)
    IN  /\ lastWrite.n < MaxRuns
        /\ failAt <= NWrites(stamps)
        /\ overwrite \/ manifest < s
        /\ cellFiles' = out.files
        /\ manifest' = out.manifest
        /\ tsDir' = "present"
        /\ lastWrite' = [status |-> out.status, n |-> lastWrite.n + 1,
                         overwrite |-> overwrite, failAt |-> failAt, stamps |-> stamps,
                         prevManifest |-> manifest, prevFiles |-> cellFiles]
        /\ UNCHANGED <<freq, call, again, images, corrupt, imgSummary, store,
                       lastRead, lastRun, history, policy>>
        /\ UNCHANGED <<flagVars, imgVars, fileVars, callVars, loadVars, cliVars,
                       dlVars, retryVars, pathVars>>

NextWrite ==
    \E s \in RunDates(freq), e \in RunDates(freq), ow \in BOOLEAN,
       failAt \in 0 .. (NCells * RunDays) :
        s <= e /\ Img2tsWrite(s, e, ow, failAt)

SpecWrite == InitWrite /\ [][NextWrite]_vars

----------------------------------------------------------------------------
(* The reshuffle command: cli_reshuffle resolves omitted dates, calls img2ts *)

SetMin(S) == CHOOSE x \in S : \A y \in S : x <= y

\* get_first_image_date(path): the {datetime} field of the first matching file
\* under path in sorted order; ValueError if no file matches
GetFirstImageDate(dates) ==
    IF dates = {} THEN [status |-> "ValueError", date |-> NoDate]
    ELSE [status |-> "ok", date |-> SetMin(dates)]

\* get_last_image_date(path): the same for the last matching file
GetLastImageDate(dates) ==
    IF dates = {} THEN [status |-> "ValueError", date |-> NoDate]
    ELSE [status |-> "ok", date |-> SetMax(dates)]

\* cli_reshuffle: startdate from get_first_image_date(img_path, fntempl),
\* enddate from get_last_image_date(ts_path, fntempl); NoDate stands for None
ResolveDates(startArg, endArg, imgDates, tsDates) ==
    LET first == IF startArg = NoDate THEN GetFirstImageDate(imgDates)
                 ELSE [status |-> "ok", date |-> startArg]
        last  == IF first.status # "ok" THEN first
                 ELSE IF endArg = NoDate THEN GetLastImageDate(tsDates)
                 ELSE [status |-> "ok", date |-> endArg]
    IN  [status |-> last.status, start |-> first.date, end |-> last.date]

\* the dates the -e option is given: image dates, and the days after them
EndArgs(f) == RunDates(f) \cup {AddDays(d, 1) : d \in RunDates(f)}

InitCli ==
    /\ InitNoPaths
    /\ InitNoRetry
    /\ InitNoDownload
    /\ freq \in Cadences
    /\ call = NoCall
    /\ again = NoCall
    /\ images \in SUBSET RunDates(freq)
    /\ corrupt = {}
    /\ imgSummary = NoDate
    /\ manifest = NoDate
    /\ store = <<>>
    /\ lastRead = NoRead
    /\ lastRun = NoRun
    /\ history = "none"
    /\ policy = "skip"
    /\ tsDir = "absent"
    /\ InitNoFlags
    /\ InitNoImg
    /\ InitNoFiles
    /\ InitNoCalls
    /\ InitNoLoad
    /\ InitNoWrite
    /\ tsPathImages \in SUBSET RunDates(freq)
    /\ lastCli = NoCli

\* `c3s_sm reshuffle IMG_PATH TS_PATH [-s startdate] [-e enddate] [--overwrite]`
CliReshuffle(startArg, endArg, overwrite) ==
    LET res    == ResolveDates(startArg, endArg, images, tsPathImages)
        stamps == TstampsOutcome(freq, res.start, res.end).result
        out    == Img2tsTail(cellFiles, manifest, stamps, res.end, overwrite, 0)
        \* the image stack finds no file name to parse: IOError
        status == IF res.status = "ok" /\ images = {} THEN "IOError" ELSE res.status
    IN  /\ lastCli.status = "none"
        /\ lastCli' = [status |-> status, startArg |-> startArg,
                       endArg |-> endArg, images |-> images,
                       start |-> res.start, end |-> res.end]
        /\ IF status = "ok"
           THEN /\ cellFiles' = out.files
                /\ manifest' = out.manifest
                /\ tsDir' = "present"
                /\ tsPathImages' = IF overwrite THEN {} ELSE tsPathImages
                /\ lastWrite' = [status |-> out.status, n |-> lastWrite.n + 1,
                                 overwrite |-> overwrite, failAt |-> 0,
                                 stamps |-> stamps, prevManifest |-> manifest,
                                 prevFiles |-> cellFiles]
           ELSE UNCHANGED <<cellFiles, manifest, tsDir, tsPathImages, lastWrite>>
        /\ UNCHANGED <<freq, call, again, images, corrupt, imgSummary, store,
                       lastRead, lastRun, history, policy>>
        /\ UNCHANGED <<flagVars, imgVars, fileVars, callVars, loadVars, dlVars,
                       retryVars, pathVars>>

NextCli ==
    \E startArg \in RunDates(freq) \cup {NoDate},
       endArg \in EndArgs(freq) \cup {NoDate}, ow \in BOOLEAN :
        CliReshuffle(startArg, endArg, ow)

SpecCli == InitCli /\ [][NextCli]_vars

----------------------------------------------------------------------------
(* download_and_extract: the while loops that split the period into requests. *)
(* startdate and enddate are dates (datetimes at midnight).                   *)

Aggregations == {"daily", "dekadal", "monthly"}

\* the first date a download may start at
DlFirst == Ord(2019, 12, 10)

\* number of days after DlFirst that start and end dates are taken from
DlSpan == 75

DlDates == DlFirst .. (DlFirst + DlSpan)

\* the days of the month requested for monthly and for dekadal data
MonthlyDays == <<1>>

DekadalDays == <<1, 11, 21>>

SeqToSet(s) == {s[i] : i \in 1 .. Len(s)}

\* variant: every request runs to the last day of its month
DailyEndDayWholeMonth(y, m, end) == DaysInMonth(y, m)

\* daily branch: d = enddate.day in the month of enddate, else the month's length
DailyEndDay(y, m, end) ==
    IF YearOf(end) = y /\ MonthOf(end) = m THEN DayOf(end) ELSE DaysInMonth(y, m)

\* daily branch, one pass of the loop body: the request made and the next curr_start
DailyRequest(curr_start, end) ==
    LET y  == YearOf(curr_start)
        m  == MonthOf(curr_start)
        sd == DayOf(curr_start)
        d  == DailyEndDay(y, m, end)
    IN  [year |-> y, months |-> {m}, days |-> sd .. d,
         fstart |-> curr_start, fend |-> Ord(y, m, d)]

\* the months of one yearly request: `if curr_year == startdate.year ... elif
\* curr_year == enddate.year ... else`
YearMonths(curr_year, start, end) ==
    IF curr_year = YearOf(start) THEN {m \in 1 .. 12 : m >= MonthOf(start)}
    ELSE IF curr_year = YearOf(end) THEN {m \in 1 .. 12 : m <= MonthOf(end)}
    ELSE 1 .. 12

\* `while curr_start.day not in ds: curr_start += timedelta(days=1)`
RECURSIVE NextDayIn(_, _)
NextDayIn(date, ds) ==
    IF DayOf(date) \in SeqToSet(ds) THEN date ELSE NextDayIn(AddDays(date, 1), ds)

\* monthly/dekadal branch, one pass of the loop body
YearlyRequest(curr_year, start, end, ds) ==
    LET ms == YearMonths(curr_year, start, end)
        first == Ord(curr_year, SetMin(ms),
                     IF curr_year = YearOf(start) THEN DayOf(start) ELSE ds[1])
    IN  [year |-> curr_year, months |-> ms, days |-> SeqToSet(ds),
         fstart |-> NextDayIn(first, ds),
         fend |-> Ord(curr_year, SetMax(ms), ds[Len(ds)])]

InitDownload ==
    /\ InitNoPaths
    /\ InitNoRetry
    /\ freq = "DAILY"
    /\ call = NoCall
    /\ again = NoCall
    /\ InitRunVars
    /\ InitNoFlags
    /\ InitNoImg
    /\ InitNoFiles
    /\ InitNoCalls
    /\ InitNoLoad
    /\ InitNoWrite
    /\ InitNoCli
    /\ aggregation \in Aggregations
    /\ startdate \in DlDates
    /\ enddate \in DlDates
    /\ curr = IF aggregation = "daily" THEN startdate ELSE YearOf(startdate)
    /\ requests = <<>>
    /\ dlPc = "loop"
    /\ dlSuccess = NoSuccess

\* one pass of `while curr_start <= enddate`, download_c3ssm included
DailyPass(ok) ==
    /\ dlPc = "loop"
    /\ aggregation = "daily"
    /\ curr <= enddate
    /\ LET req == DailyRequest(curr, enddate)
       IN  /\ requests' = Append(requests, req)
           /\ curr' = AddDays(req.fend, 1)
    /\ dlSuccess' = ok
    /\ UNCHANGED <<aggregation, startdate, enddate, dlPc>>
    /\ UNCHANGED <<freq, call, again, runVars, flagVars, imgVars, fileVars, callVars,
                   loadVars, writeVars, cliVars, retryVars, pathVars>>

\* one pass of `while curr_year <= enddate.year`, download_c3ssm included
YearlyPass(ok) ==
    /\ dlPc = "loop"
    /\ aggregation # "daily"
    /\ curr <= YearOf(enddate)
    /\ requests' = Append(requests,
           YearlyRequest(curr, startdate, enddate,
                         IF aggregation = "monthly" THEN MonthlyDays ELSE DekadalDays))
    /\ curr' = curr + 1
    /\ dlSuccess' = ok
    /\ UNCHANGED <<aggregation, startdate, enddate, dlPc>>
    /\ UNCHANGED <<freq, call, again, runVars, flagVars, imgVars, fileVars, callVars,
                   loadVars, writeVars, cliVars, retryVars, pathVars>>

\* the loop condition is false: download_and_extract returns
DownloadReturns ==
    /\ dlPc = "loop"
    /\ IF aggregation = "daily" THEN curr > enddate ELSE curr > YearOf(enddate)
    /\ dlPc' = "done"
    /\ UNCHANGED <<aggregation, startdate, enddate, curr, requests, dlSuccess>>
    /\ UNCHANGED <<freq, call, again, runVars, flagVars, imgVars, fileVars, callVars,
                   loadVars, writeVars, cliVars, retryVars, pathVars>>

NextDownload ==
    \/ \E ok \in [{"cdr", "icdr"} -> BOOLEAN] : DailyPass(ok)
    \/ \E ok \in [{"cdr", "icdr"} -> BOOLEAN] : YearlyPass(ok)
    \/ DownloadReturns

\* the interpreter keeps executing the loop
SpecDownload == InitDownload /\ [][NextDownload]_vars /\ WF_vars(NextDownload)

----------------------------------------------------------------------------
(* download_c3ssm: the retry loop around c.retrieve, for 'cdr' and then 'icdr' *)

\* largest max_retries a caller passes (download_and_extract passes 3)
MaxRetries == 3

\* variant: the loop allows one more pass
RetryGoesOnOnceMore(succeeded, i, retries) == ~succeeded /\ i <= retries + 1

\* `while not success[record] and i <= max_retries`
RetryGoesOn(succeeded, i, retries) == ~succeeded /\ i <= retries

\* what a failed c.retrieve may leave at dl_file: nothing new, or part of the archive
Leftovers == {"untouched", "partial"}

\* `if os.path.isfile(dl_file): os.remove(dl_file)`
RemoveIfFile(file) == IF file # "absent" THEN "absent" ELSE file

InitRetry ==
    /\ InitNoPaths
    /\ freq = "DAILY"
    /\ call = NoCall
    /\ again = NoCall
    /\ InitRunVars
    /\ InitNoFlags
    /\ InitNoImg
    /\ InitNoFiles
    /\ InitNoCalls
    /\ InitNoLoad
    /\ InitNoWrite
    /\ InitNoCli
    /\ InitNoDownload
    /\ max_retries \in 0 .. MaxRetries
    /\ keep_original \in BOOLEAN
    /\ targetExists \in BOOLEAN
    /\ record = 1
    /\ tries = 0
    /\ success = NoSuccess
    /\ attempts = [r \in {"cdr", "icdr"} |-> <<>>]
    /\ dlFile = "absent"
    /\ extracted = {}
    /\ retryPc = "start"

\* `if not os.path.exists(target_dir): raise IOError`
RetryEnter ==
    /\ retryPc = "start"
    /\ retryPc' = IF targetExists THEN "try" ELSE "IOError"
    /\ UNCHANGED <<max_retries, keep_original, targetExists, record, tries, success,
                   attempts, dlFile, extracted>>
    /\ UNCHANGED <<freq, call, again, runVars, flagVars, imgVars, fileVars, callVars,
                   loadVars, writeVars, cliVars, dlVars, pathVars>>

\* one pass of the while loop: c.retrieve, and on any exception the removal of
\* dl_file if it is a file; finally i += 1
RetryAttempt(ok, leftover) ==
    LET r == Records[record]
    IN  /\ retryPc \in {"try", "failed"}
        /\ record <= Len(Records)
        /\ RetryGoesOn(success[r], tries, max_retries)
        /\ attempts' = [attempts EXCEPT ![r] = Append(@, ok)]
        /\ success' = [success EXCEPT ![r] = ok]
        /\ dlFile' = IF ok THEN "complete"
                      ELSE RemoveIfFile(IF leftover = "partial" THEN "partial" ELSE dlFile)
        /\ tries' = tries + 1
        /\ retryPc' = IF ok THEN "try" ELSE "failed"
        /\ UNCHANGED <<max_retries, keep_original, targetExists, record, extracted>>
        /\ UNCHANGED <<freq, call, again, runVars, flagVars, imgVars, fileVars,
                       callVars, loadVars, writeVars, cliVars, dlVars,
                       pathVars>>

\* the loop of one record has ended: extract on success, remove the archive
\* unless keep_original, go on with the next record or return success
RetryRecordEnds ==
    LET r == Records[record]
    IN  /\ retryPc \in {"try", "failed"}
        /\ record <= Len(Records)
        /\ ~RetryGoesOn(success[r], tries, max_retries)
        /\ extracted' = IF success[r] THEN extracted \cup {r} ELSE extracted
        /\ dlFile' = IF success[r] /\ ~keep_original THEN "absent" ELSE dlFile
        /\ record' = record + 1
        /\ tries' = 0
        /\ retryPc' = IF record = Len(Records) THEN "returned" ELSE "try"
        /\ UNCHANGED <<max_retries, keep_original, targetExists, success, attempts>>
        /\ UNCHANGED <<freq, call, again, runVars, flagVars, imgVars, fileVars,
                       callVars, loadVars, writeVars, cliVars, dlVars,
                       pathVars>>

NextRetry ==
    \/ RetryEnter
    \/ \E ok \in BOOLEAN, leftover \in Leftovers : RetryAttempt(ok, leftover)
    \/ RetryRecordEnds

\* the interpreter keeps executing the loop; c.retrieve returns or raises
SpecRetry == InitRetry /\ [][NextRetry]_vars /\ WF_vars(NextRetry)

----------------------------------------------------------------------------
(* img2ts on explicit directories: the path guard and shutil.rmtree(ts_path). *)
(* A path is the sequence of its directory names below the root.              *)

\* longest path
MaxDepth == 2

DirNames == {"a", "b"}

Paths == UNION {[1 .. n -> DirNames] : n \in 0 .. MaxDepth}

\* p in Path(q).parents: p is a proper ancestor of q
InParents(p, q) == Len(p) < Len(q) /\ SubSeq(q, 1, Len(p)) = p

\* p is root or lies below root
Under(p, root) == p = root \/ InParents(root, p)

\* `if Path(img_path) in Path(ts_path).parents: raise ValueError`
PathGuard(img, ts) == InParents(img, ts)

\* os.path.exists(path), for a directory: something exists at or below it
Exists(files, path) == \E f \in files : Under(f.dir, path)

\* shutil.rmtree(root)
RmTree(files, root) == {f \in files : ~Under(f.dir, root)}

\* the files an image directory holds: one directly in it, one in a year folder
ImageFiles(img) ==
    {[dir |-> img, kind |-> "image"]}
        \cup (IF Len(img) < MaxDepth
              THEN {[dir |-> Append(img, d), kind |-> "image"] : d \in {"a"}}
              ELSE {})

\* what a completed run leaves in ts_path
TsFiles(ts) == {[dir |-> ts, kind |-> "cell"], [dir |-> ts, kind |-> "manifest"]}

InitPaths ==
    /\ freq = "DAILY"
    /\ call = NoCall
    /\ again = NoCall
    /\ InitRunVars
    /\ InitNoFlags
    /\ InitNoImg
    /\ InitNoFiles
    /\ InitNoCalls
    /\ InitNoLoad
    /\ InitNoWrite
    /\ InitNoCli
    /\ InitNoDownload
    /\ InitNoRetry
    /\ img_path \in Paths
    /\ ts_path \in Paths
    /\ \E old \in BOOLEAN :
          fsFiles = ImageFiles(img_path) \cup (IF old THEN TsFiles(ts_path) ELSE {})
    /\ lastPathRun = NoPathRun

\* img2ts(img_path, ts_path, ..., overwrite=): the guard, the image stack built
\* from the files found, rmtree and makedirs, Img2Ts.calc, the summary file
Img2tsOnPaths(overwrite) ==
    LET kept == IF overwrite /\ Exists(fsFiles, ts_path)
                THEN RmTree(fsFiles, ts_path) ELSE fsFiles
    IN  /\ lastPathRun.status = "none"
        /\ IF PathGuard(img_path, ts_path)
           THEN /\ lastPathRun' = [status |-> "ValueError", overwrite |-> overwrite,
                                   before |-> fsFiles]
                /\ UNCHANGED fsFiles
           ELSE /\ lastPathRun' = [status |-> "done", overwrite |-> overwrite,
                                   before |-> fsFiles]
                /\ fsFiles' = kept \cup TsFiles(ts_path)
        /\ UNCHANGED <<img_path, ts_path>>
        /\ UNCHANGED <<freq, call, again, runVars, flagVars, imgVars, fileVars,
                       callVars, loadVars, writeVars, cliVars, dlVars, retryVars>>

NextPaths == \E overwrite \in BOOLEAN : Img2tsOnPaths(overwrite)

SpecPaths == InitPaths /\ [][NextPaths]_vars

----------------------------------------------------------------------------
(* Properties of tstamps_for_daterange, checked under SpecStamps *)

StrictlyIncreasing(ts) == \A i \in 1 .. (Len(ts) - 1) : ts[i] < ts[i + 1]

FirstsOfMonthIn(s, e) == {d \in s .. e : DayOf(d) = 1}

\* C6: DEKADAL, start on the 1st, 11th or 21st: every returned timestamp has
\* day of month 1, 11 or 21, for every end date.
C6_DekadalDays ==
    (freq = "DEKADAL" /\ call.status = "ok" /\ DayOf(call.start) \in DekadDays)
        => \A i \in 1 .. Len(call.result) : DayOf(call.result[i]) \in DekadDays

C9_MonthlyFirsts ==
    (freq = "MONTHLY" /\ call.status = "ok")
        => /\ \A i \in 1 .. Len(call.result) : DayOf(call.result[i]) = 1
           /\ Len(call.result) = Cardinality(FirstsOfMonthIn(call.start, call.end))

\* C10: DEKADAL with a start whose day of month is not 1, 11 or 21: the call is
\* rejected with ValueError and produces no timestamp sequence.
C10_DekadalStartRejected ==
    (freq = "DEKADAL" /\ call.status # "none" /\ DayOf(call.start) \notin DekadDays)
        => (call.status = "ValueError" /\ call.result = <<>>)

----------------------------------------------------------------------------
(* Properties of the reshuffle runs and of reading, checked under Spec *)

\* C2: after one img2ts run followed by any number of extend_ts runs on the
\* same store, the time axis of the cell file is strictly increasing and
\* duplicate-free.
C2_AxisStrictlyIncreasing ==
    history \in {"img2ts", "extended"}
        => \A i \in 1 .. (Len(store) - 1) : store[i].t < store[i + 1].t

\* C4: after img2ts over a range that enumerates n timestamps, the series has
\* exactly n entries in timestamp order, entry i holds the value of image i, and
\* an entry whose image file is missing or unreadable holds the fill value at
\* its own position.
C4_RoundTrip ==
    (lastRun.status = "done" /\ ~lastRun.extend /\ lastRun.fresh)
        => /\ Len(store) = Len(lastRun.stamps)
           /\ \A i \in 1 .. Len(store) :
                 /\ store[i].t = lastRun.stamps[i]
                 /\ store[i].v = IF lastRun.stamps[i] \in images
                                 THEN ImgValue(lastRun.stamps[i]) ELSE NaN

\* C5: read(timestamp) for a timestamp without a matching file returns the
\* synthesized empty image (fill values, image_missing = 1), not an I/O error.
C5_MissingFileGivesEmptyImage ==
    (lastRead.status # "none" /\ lastRead.t \notin FileDates)
        => /\ lastRead.status = "empty"
           /\ lastRead.value = NaN
           /\ lastRead.missing

\* C11: extend_ts without an explicit startdate resumes at the cadence successor
\* of the end date recorded in the manifest (next day; first of the next month;
\* next of the 1st/11th/21st, the 1st of the following month after the 21st) and
\* processes through the last available image date.
C11_ExtendResumesAtSuccessor ==
    (lastRun.extend /\ lastRun.status # "none")
        => /\ lastRun.start = FirstMissingDate(freq, lastRun.prevEnd)
           /\ lastRun.end = LastImageDate

----------------------------------------------------------------------------
(* Properties of the bit flag catalog, checked under SpecFlags *)

RECURSIVE SumOf(_)
SumOf(S) == IF S = {} THEN 0 ELSE LET x == CHOOSE y \in S : TRUE
                                  IN  x + SumOf(S \ {x})

\* the members of S in ascending order, written as bit values or as names
AscendingMembers(S, num) ==
    [i \in 1 .. Cardinality(S) |->
        LET x == CHOOSE y \in S : Cardinality({z \in S : z <= y}) = i
        IN  IF num THEN Tok("num", x) ELSE Tok("name", x)]

\* prefix + members joined by the separator + postfix
JoinedMeaning(S, num) ==
    [j \in 1 .. (2 * Cardinality(S) + 1) |->
        IF j = 1 THEN Tok("prefix", 0)
        ELSE IF j = 2 * Cardinality(S) + 1 THEN Tok("postfix", 0)
        ELSE IF j % 2 = 0 THEN AscendingMembers(S, num)[j \div 2]
        ELSE Tok("sep", 0)]

EntriesOf(rows) == {[intflag |-> r.intflag, meaning |-> r.meaning] : r \in rows}

\* C12: the table built from k bits has exactly 2^k entries with pairwise
\* distinct integer values, entry 0 has the unflagged meaning, and every entry's
\* integer value is the bitwise OR (the sum) of the values 2^i of its bits.
C12_TableOfAllSubsets ==
    (df.built /\ nQueries = 0)
        => /\ Cardinality(df.rows) = Pow2(n_bits)
           /\ \A r1 \in df.rows, r2 \in df.rows :
                  r1.intflag = r2.intflag => r1 = r2
           /\ \A r \in df.rows :
                  /\ r.flags \subseteq BitSet(n_bits)
                  /\ r.intflag = SumOf(r.flags)
                  /\ r.intflag = 0 => r.meaning = <<Tok("unflagged", 0)>>
           /\ \E r \in df.rows : r.intflag = 0

C12_Witness ==
    /\ df.built
    /\ nQueries = 0
    /\ n_bits = MaxBits
    /\ \E r \in df.rows : r.flags = {1, 4} /\ r.intflag = 5

C14_QueriesLeaveTable ==
    (df.built /\ nQueries > 0)
        => /\ df.rows = fullTable
           /\ (lastQuery.prod = "combined" /\ ~lastQuery.no_combis)
                 => (lastQuery.status = "ok"
                     /\ lastQuery.entries = EntriesOf(fullTable))
           /\ firstResult[<<lastQuery.prod, lastQuery.no_combis>>] =
                 [status |-> lastQuery.status, entries |-> lastQuery.entries]

\* C15: on a freshly built catalog with disjoint active and passive bits,
\* get_prod_flags('active') returns exactly the entries of the full table in
\* which no passive-only bit is set, entry 0 included (only 0 and the single
\* active bits when no_combis is true); 'passive' returns the mirror set;
\* neither call raises.
C15_SensorSubset ==
    (nQueries = 1 /\ lastQuery.prod \in {"active", "passive"})
        => LET other == IF lastQuery.prod = "active" THEN passive_bits
                        ELSE active_bits
               own   == IF lastQuery.prod = "active" THEN active_bits
                        ELSE passive_bits
               kept  == {r \in fullTable : r.flags \cap other = {}}
           IN  /\ lastQuery.status = "ok"
               /\ lastQuery.entries =
                     IF lastQuery.no_combis
                     THEN EntriesOf({r \in kept : r.intflag \in {0} \cup own})
                     ELSE EntriesOf(kept)

----------------------------------------------------------------------------
(* Properties of reading one image, checked under SpecImg *)

\* the file cell that holds grid point g
CellOfGpi(g) == <<(GridRows - 1) - (g \div GridCols), g % GridCols>>

\* C16: read applies the per-variable fill policy: in the array read for a
\* variable with a non-None fill value in fillval every masked cell holds that
\* fill value, and for a variable whose fill value is None (or absent) the
\* masked cells hold the file's own declared fill value.
C16_FillPolicy ==
    lastImg.status # "none"
        => \A p \in DOMAIN lastImg.flat : \A g \in Gpis :
              CellOfGpi(g) \in mask
                  => lastImg.flat[p][g] =
                        IF p \in DOMAIN fillval /\ ~fillval[p].none
                        THEN fillval[p].v
                        ELSE RawSentinel

\* C17: an image read with flatten=True has, for every variable, one value per
\* active grid point, and position i holds the longitude, latitude and file
\* value of the i-th active grid point.
C17_FlatOrder ==
    (lastImg.status # "none" /\ flatten)
        => /\ lastImg.status = "ok"
           /\ Len(lastImg.lon) = Len(activegpis)
           /\ Len(lastImg.lat) = Len(activegpis)
           /\ \A i \in 1 .. Len(activegpis) :
                 <<lastImg.lon[i], lastImg.lat[i]>> = Gpi2LonLat(activegpis[i])
           /\ DOMAIN lastImg.data = parameters
           /\ \A p \in parameters :
                 /\ Len(lastImg.data[p]) = Len(activegpis)
                 /\ \A i \in 1 .. Len(activegpis) :
                       CellOfGpi(activegpis[i]) \notin mask
                           => lastImg.data[p][i] =
                                 FileValue(p, CellOfGpi(activegpis[i]))

----------------------------------------------------------------------------
(* Properties of _build_filename, checked under SpecFiles *)

\* C18: with two or more matching files, sort_last returns the
\* lexicographically greatest file name and sort_first the least, and either
\* emits exactly one warning that names every skipped file; with exactly one
\* matching file that file is returned without a warning.
C18_AmbiguityPolicy ==
    lastBuild.status # "none"
        => /\ (Len(found) >= 2 /\ solve_ambiguity \in {"sort_last", "sort_first"})
                 => /\ lastBuild.status = "ok"
                    /\ lastBuild.file \in Range(found)
                    /\ solve_ambiguity = "sort_last"
                          => \A f \in Range(found) : f <= lastBuild.file
                    /\ solve_ambiguity = "sort_first"
                          => \A f \in Range(found) : lastBuild.file <= f
                    /\ Len(lastBuild.warnings) = 1
                    /\ lastBuild.warnings[1].skipped =
                          Range(found) \ {lastBuild.file}
           /\ Len(found) = 1
                 => /\ lastBuild.status = "ok"
                    /\ lastBuild.file = found[1]
                    /\ lastBuild.warnings = NoWarnings

----------------------------------------------------------------------------
(* Properties of the calls of img2ts, checked under SpecCalls *)

\* C19: img2ts called with both bbox and cells raises ValueError before any
\* image is read and before the output directory is created, deleted (even with
\* overwrite=True) or written: everything under ts_path is unchanged.
C19_BboxAndCellsRejected ==
    [][(lastCall'.bbox /\ lastCall'.cells)
          => /\ lastCall'.status = "ValueError"
             /\ lastRun' = NoRun
             /\ UNCHANGED <<store, manifest, tsDir, tsAttrs>>]_vars

C19_Witness ==
    /\ lastCall.status = "ValueError"
    /\ lastCall.bbox
    /\ lastCall.cells
    /\ ~lastCall.nested
    /\ lastCall.overwrite
    /\ tsDir = "present"
    /\ Len(store) > 0

\* C20: img2ts with ignore_meta=False on images whose version string has no
\* catalog raises UnknownVersionError before the output directory is created
\* or deleted; with ignore_meta=True the catalog is never looked up and the
\* images are reshuffled without attributes.
C20_UnknownVersion ==
    [][(~lastCall'.nested /\ ~(lastCall'.bbox /\ lastCall'.cells)
        /\ lastCall'.status # "none")
          => /\ (~lastCall'.ignore_meta /\ version \notin CatalogVersions)
                   => /\ lastCall'.status = "UnknownVersionError"
                      /\ UNCHANGED <<store, manifest, tsDir, tsAttrs>>
             /\ lastCall'.ignore_meta
                   => /\ ~lookedUp'
                      /\ lastCall'.status = "ok"
                      /\ lastRun'.status # "none"
                      /\ tsAttrs' = "none"]_vars

----------------------------------------------------------------------------
(* Properties of C3SImg.read on changing files, checked under SpecLoad *)

\* C21: reading a file that can be opened and declares zero or more than one
\* time stamp fails with MalformedImageError: no image, no placeholder
C21_MalformedImageError ==
    (nReads > 0 /\ lastLoad.opened /\ lastLoad.ntimes # 1)
        => lastLoad.status = "MalformedImageError"

\* C29: the placeholder built for an unreadable file has the variable names
\* the image of a readable file has under the same configuration
C29_PlaceholderNames ==
    lastLoad.status = "empty"
        => DOMAIN lastLoad.data = (IF paramsArg = {} THEN FileVariables ELSE paramsArg)

----------------------------------------------------------------------------
(* Properties of failing img2ts runs, checked under SpecWrite *)

\* the writes of a run that had succeeded when the write numbered failAt raised
FlushedBefore(w, c) ==
    {i \in 1 .. Len(w.stamps) :
        \E k \in 1 .. (w.failAt - 1) :
            /\ ((k - 1) % NCells) + 1 = c
            /\ ((i - 1) \div ImgBuffer) = ((k - 1) \div NCells)}

\* C22: when a cell write fails the run stops with that error, every cell file
\* holds what it held before the run (nothing after overwrite) followed by
\* exactly what was flushed before the failure, and the manifest has not been
\* created or given a new end date
C22_FailedWriteLeavesFiles ==
    lastWrite.status = "WriteError" =>
        LET before == [c \in TsCells |->
                          IF lastWrite.overwrite THEN <<>> ELSE lastWrite.prevFiles[c]]
        IN  /\ \A c \in TsCells :
                  /\ Len(cellFiles[c]) = Len(before[c]) + Cardinality(FlushedBefore(lastWrite, c))
                  /\ SubSeq(cellFiles[c], 1, Len(before[c])) = before[c]
                  /\ \A i \in FlushedBefore(lastWrite, c) :
                        cellFiles[c][Len(before[c]) + i] = lastWrite.stamps[i]
            /\ manifest \in {lastWrite.prevManifest, NoDate}
            /\ (lastWrite.prevManifest = NoDate => manifest = NoDate)

\* a run failed after it had flushed a cell file, on a store with a manifest
C22_Witness ==
    /\ lastWrite.status = "WriteError"
    /\ ~lastWrite.overwrite
    /\ lastWrite.prevManifest # NoDate
    /\ \E c \in TsCells : Len(cellFiles[c]) > Len(lastWrite.prevFiles[c])
    /\ \E c \in TsCells : cellFiles[c] = lastWrite.prevFiles[c]

----------------------------------------------------------------------------
(* Properties of the reshuffle command, checked under SpecCli *)

\* C23: with image files under img_path, an omitted start date resolves to the
\* date of the first image file under img_path and an omitted end date to the
\* date of the last image file under img_path
C23_OmittedDatesFromImgPath ==
    (lastCli.status # "none" /\ lastCli.images # {}) =>
        /\ lastCli.startArg = NoDate => lastCli.start = SetMin(lastCli.images)
        /\ lastCli.endArg = NoDate =>
              (lastCli.status # "ValueError" /\ lastCli.end = SetMax(lastCli.images))

\* C24: after a completed reshuffle the manifest records as end of the period
\* the time stamp of the last image incorporated, not the requested end date
C24_ManifestEndIsLastImage ==
    (lastCli.status = "ok" /\ lastWrite.status = "done"
        /\ lastCli.start <= lastCli.end) =>
        manifest = lastWrite.stamps[Len(lastWrite.stamps)]

----------------------------------------------------------------------------
(* Properties of download_and_extract, checked under SpecDownload *)

\* months counted from year 0
MonthIndex(date) == YearOf(date) * 12 + MonthOf(date) - 1

\* the dates one request asks for
RequestedDates(req) ==
    UNION {{Ord(req.year, m, d) : d \in {dd \in req.days : dd <= DaysInMonth(req.year, m)}} :
              m \in req.months}

C25_DailyRequests ==
    (dlPc = "done" /\ aggregation = "daily" /\ startdate <= enddate) =>
        /\ Len(requests) = MonthIndex(enddate) - MonthIndex(startdate) + 1
        /\ \A i \in 1 .. Len(requests) :
              /\ Cardinality(requests[i].months) = 1
              /\ \A m \in requests[i].months :
                    requests[i].year * 12 + m - 1 = MonthIndex(startdate) + i - 1
              /\ \A m \in requests[i].months, d \in requests[i].days :
                    d <= DaysInMonth(requests[i].year, m)
        /\ UNION {RequestedDates(requests[i]) : i \in 1 .. Len(requests)}
               = startdate .. enddate

C30_YearlyRequestsInRange ==
    (aggregation # "daily" /\ startdate <= enddate) =>
        /\ \A i \in 1 .. Len(requests) :
              /\ RequestedDates(requests[i]) \subseteq startdate .. enddate
              /\ \A m \in requests[i].months :
                    /\ MonthIndex(startdate) <= requests[i].year * 12 + m - 1
                    /\ requests[i].year * 12 + m - 1 <= MonthIndex(enddate)
        /\ dlPc = "done" =>
              /\ Len(requests) = YearOf(enddate) - YearOf(startdate) + 1
              /\ \A i \in 1 .. Len(requests) :
                    requests[i].year = YearOf(startdate) + i - 1

----------------------------------------------------------------------------
(* Properties of download_c3ssm, checked under SpecRetry *)

C26_RetryBounds ==
    /\ \A r \in {"cdr", "icdr"} :
          /\ Len(attempts[r]) <= max_retries + 1
          /\ \A k \in 1 .. (Len(attempts[r]) - 1) : ~attempts[r][k]
          /\ r \in extracted => \E k \in 1 .. Len(attempts[r]) : attempts[r][k]
    /\ retryPc = "failed" => dlFile = "absent"

\* C26: per record type c.retrieve is called at most max_retries + 1 times and
\* never after its first success, the partly downloaded file is gone after each
\* failed attempt, an archive is extracted only if an attempt succeeded, and
\* the function terminates
C26_BoundedRetries == []C26_RetryBounds /\ <>(retryPc \in {"returned", "IOError"})

\* one record used up all its attempts, the other succeeded at a retry
C26_Witness ==
    /\ retryPc = "returned"
    /\ max_retries >= 1
    /\ Len(attempts["cdr"]) = max_retries + 1
    /\ "cdr" \notin extracted
    /\ Len(attempts["icdr"]) > 1
    /\ "icdr" \in extracted

----------------------------------------------------------------------------
(* Properties of img2ts on explicit directories, checked under SpecPaths *)

\* C27: img2ts never deletes an image file, whatever img_path and ts_path are
\* and also with overwrite=True: it raises the ValueError of the path guard or
\* removes a tree that holds no image file
C27_ImagesNeverDeleted ==
    lastPathRun.status # "none" =>
        \A f \in lastPathRun.before : f.kind = "image" => f \in fsFiles

----------------------------------------------------------------------------
(* Bounds of tstamps_for_daterange, checked under SpecStamps *)

\* C28: every time stamp returned by tstamps_for_daterange(start, end) lies in
\* [start, end], for every cadence, and the result is empty when start > end
C28_StampsWithinRange ==
    call.status = "ok" =>
        /\ \A i \in 1 .. Len(call.result) :
              call.start <= call.result[i] /\ call.result[i] <= call.end
        /\ call.start > call.end => call.result = <<>>

====
